---------------------------- MODULE Spec2Model ----------------------------
(***************************************************************************)
(* Model of the shadowcast field-of-view engine (src/src/shadowcast.rs)    *)
(* and of the Matrix / Point primitives it uses (src/src/base.rs).         *)
(*                                                                         *)
(* Points are pairs <<x, y>>, slopes are records [num, den], a transform   *)
(* is identified by its index into TRANSFORMS (the source compares the     *)
(* address of the static table entry).  All integers of the model stay far *)
(* below 2^31, so i32 arithmetic never wraps within the bounds used here.  *)
(***************************************************************************)
EXTENDS Integers, Sequences, FiniteSets, TLC

(***************************************************************************)
(* Bounds of the model.                                                    *)
(***************************************************************************)
MaxRadius == 3
MaxBlocks == 2

(***************************************************************************)
(* Program constants.                                                      *)
(***************************************************************************)
INITIAL_VISIBILITY == 100
VISIBILITY_LOSS == 45
SPARSE_FACTOR == 16

TRANSFORMS ==
    << << <<1, 0>>,  <<0, 1>>  >>,
       << <<0, 1>>,  <<-1, 0>> >>,
       << <<-1, 0>>, <<0, -1>> >>,
       << <<0, -1>>, <<1, 0>>  >> >>

ROT_LEFT_ == << <<33, 56>>, <<-56, 33>> >>
ROT_RIGHT == << <<33, -56>>, <<56, 33>> >>

(***************************************************************************)
(* Integer helpers: Rust's / and % truncate toward zero.                   *)
(***************************************************************************)
Abs(n) == IF n < 0 THEN -n ELSE n

Max(a, b) == IF a >= b THEN a ELSE b

TruncDiv(lhs, rhs) ==
    LET q == Abs(lhs) \div Abs(rhs)
    IN  IF (lhs >= 0) = (rhs > 0) THEN q ELSE -q

TruncRem(lhs, rhs) == lhs - rhs * TruncDiv(lhs, rhs)

div_floor(lhs, rhs) ==
    LET d == TruncDiv(lhs, rhs)
        r == TruncRem(lhs, rhs)
    IN  IF (r > 0 /\ rhs < 0) \/ (r < 0 /\ rhs > 0) THEN d - 1 ELSE d

div_ceil(lhs, rhs) ==
    LET d == TruncDiv(lhs, rhs)
        r == TruncRem(lhs, rhs)
    IN  IF (r > 0 /\ rhs > 0) \/ (r < 0 /\ rhs < 0) THEN d + 1 ELSE d

(***************************************************************************)
(* Point and Transform.                                                    *)
(***************************************************************************)
PointAdd(p, q) == <<p[1] + q[1], p[2] + q[2]>>

PointSub(p, q) == <<p[1] - q[1], p[2] - q[2]>>

len_l1(p) == Max(Abs(p[1]), Abs(p[2]))

len_l2_squared(p) == p[1] * p[1] + p[2] * p[2]

TransformMul(t, p) ==
    <<p[1] * t[1][1] + p[2] * t[2][1], p[1] * t[1][2] + p[2] * t[2][2]>>

Inverse(t) == << <<t[1][1], -t[1][2]>>, <<-t[2][1], t[2][2]>> >>

(***************************************************************************)
(* Rational slopes, compared by cross product.                             *)
(***************************************************************************)
Slope(num, den) == [num |-> num, den |-> den]

SlopeLt(a, b) == a.num * b.den < b.num * a.den

SlopeLe(a, b) == a.num * b.den <= b.num * a.den

SlopeEq(a, b) == a.num * b.den = b.num * a.den

\* std::cmp::max returns its second argument unless the first is greater.
SlopeMax(a, b) == IF SlopeLt(b, a) THEN a ELSE b

\* std::cmp::min returns its first argument unless it is greater.
SlopeMin(a, b) == IF SlopeLt(b, a) THEN b ELSE a

(***************************************************************************)
(* Matrix<i32>: row-major data, reads out of bounds give the default,      *)
(* writes out of bounds are dropped.  data is 1-indexed here.              *)
(***************************************************************************)
MatrixNew(size, value) ==
    [data |-> [i \in 1..(size[1] * size[2]) |-> value],
     size |-> size, default |-> value]

MatrixContains(m, p) ==
    0 <= p[1] /\ p[1] < m.size[1] /\ 0 <= p[2] /\ p[2] < m.size[2]

MatrixIndex(m, p) == p[1] + p[2] * m.size[1] + 1

MatrixGet(m, p) ==
    IF MatrixContains(m, p) THEN m.data[MatrixIndex(m, p)] ELSE m.default

MatrixSet(m, p, value) ==
    IF MatrixContains(m, p)
    THEN [m EXCEPT !.data[MatrixIndex(m, p)] = value]
    ELSE m

MatrixFill(m, value) == [m EXCEPT !.data = [i \in DOMAIN m.data |-> value]]

(***************************************************************************)
(* The opacity oracle of a call: a map of the caller's grid; every cell    *)
(* off the grid is transparent.                                            *)
(***************************************************************************)
Grid == (0..3) \X (0..1)

opacity_lookup(map, p) == IF p \in DOMAIN map THEN map[p] ELSE 0

(***************************************************************************)
(* Vision::new.  Next to the fields of the struct, a Vision of the model    *)
(* carries panic (an unwrap failed), lookups: the record the caller's      *)
(* oracle keeps of the world cells it was asked about during a call, and   *)
(* held: every SlopeRange that prev.items or next.items has held during    *)
(* the call.                                                               *)
(***************************************************************************)
EmptyRanges == [depth |-> 0, items |-> <<>>]

VisionNew(r) ==
    [radius |-> r,
     offset |-> <<0, 0>>,
     points_seen |-> <<>>,
     visibility |-> MatrixNew(<<2 * r + 1, 2 * r + 1>>, -1),
     prev |-> EmptyRanges,
     next |-> EmptyRanges,
     panic |-> FALSE,
     lookups |-> <<>>,
     held |-> {}]

\* The Vision with the ranges its two lists hold now added to held.
Held(v) ==
    [v EXCEPT !.held = @ \cup {v.prev.items[i] : i \in DOMAIN v.prev.items}
                         \cup {v.next.items[i] : i \in DOMAIN v.next.items}]

get_visibility_at(v, p) == MatrixGet(v.visibility, PointAdd(p, v.offset))

(***************************************************************************)
(* Vision::clear                                                           *)
(***************************************************************************)
\* Variant: the loop over points_seen stops one short.
RECURSIVE SparseReset_OneShort(_, _, _, _)
SparseReset_OneShort(m, points, offset, i) ==
    IF i >= Len(points) THEN m
    ELSE SparseReset_OneShort(MatrixSet(m, PointAdd(points[i], offset), -1),
                              points, offset, i + 1)

RECURSIVE SparseReset(_, _, _, _)
SparseReset(m, points, offset, i) ==
    IF i > Len(points) THEN m
    ELSE SparseReset(MatrixSet(m, PointAdd(points[i], offset), -1),
                     points, offset, i + 1)

\* Variant: the comparison of the reset choice is turned around.
UseDenseReset_Reversed(v) ==
    Len(v.visibility.data) > SPARSE_FACTOR * Len(v.points_seen)

UseDenseReset(v) == Len(v.visibility.data) < SPARSE_FACTOR * Len(v.points_seen)

ResetMatrix(v) ==
    IF UseDenseReset(v)
    THEN MatrixFill(v.visibility, -1)
    ELSE SparseReset(v.visibility, v.points_seen, v.offset, 1)

\* Variant: the viewer's cell gets the seeded constant, not the budget passed.
clear_ConstantBudget(v, pos, visibility) ==
    LET center == <<v.radius, v.radius>>
    IN  [v EXCEPT !.visibility =
                      MatrixSet(ResetMatrix(v), center, INITIAL_VISIBILITY),
                  !.offset = PointSub(center, pos),
                  !.points_seen = <<pos>>,
                  !.prev = [depth |-> 1, items |-> <<>>],
                  !.next = [depth |-> 2, items |-> <<>>]]

clear(v, pos, visibility) ==
    LET center == <<v.radius, v.radius>>
    IN  [v EXCEPT !.visibility = MatrixSet(ResetMatrix(v), center, visibility),
                  !.offset = PointSub(center, pos),
                  !.points_seen = <<pos>>,
                  !.prev = [depth |-> 1, items |-> <<>>],
                  !.next = [depth |-> 2, items |-> <<>>]]

(***************************************************************************)
(* Vision::seed_ranges.  A target is <<>> (None) or <<p>> (Some(p)).       *)
(***************************************************************************)
None == <<>>

Some(p) == <<p>>

FullRange == [min |-> Slope(-1, 1), max |-> Slope(1, 1), skip |-> FALSE]

Skipped == [min |-> Slope(-1, 1), max |-> Slope(1, 1), skip |-> TRUE]

\* Variant: the cone bounds are combined with min and max exchanged.
ClipToCone_Exchanged(rng, t, dir) ==
    LET p == TransformMul(Inverse(t), dir)
        x == p[1]
        y == p[2]
        l == TransformMul(ROT_LEFT_, p)
        r == TransformMul(ROT_RIGHT, p)
    IN  IF x < 0
        THEN IF y = 0 THEN Skipped
             ELSE IF y > 0
                  THEN IF r[1] <= 0 THEN Skipped
                       ELSE [rng EXCEPT !.min = SlopeMin(rng.min, Slope(r[2], r[1]))]
                  ELSE IF l[1] <= 0 THEN Skipped
                       ELSE [rng EXCEPT !.max = SlopeMax(rng.max, Slope(l[2], l[1]))]
        ELSE LET a == IF l[1] > 0
                      THEN [rng EXCEPT !.max = SlopeMax(rng.max, Slope(l[2], l[1]))]
                      ELSE rng
             IN  IF r[1] > 0
                 THEN [a EXCEPT !.min = SlopeMin(a.min, Slope(r[2], r[1]))]
                 ELSE a

\* The casework of the dir != (0, 0) branch for one quadrant.
ClipToCone(rng, t, dir) ==
    LET p == TransformMul(Inverse(t), dir)
        x == p[1]
        y == p[2]
        l == TransformMul(ROT_LEFT_, p)
        r == TransformMul(ROT_RIGHT, p)
    IN  IF x < 0
        THEN IF y = 0 THEN Skipped
             ELSE IF y > 0
                  THEN IF r[1] <= 0 THEN Skipped
                       ELSE [rng EXCEPT !.min = SlopeMax(rng.min, Slope(r[2], r[1]))]
                  ELSE IF l[1] <= 0 THEN Skipped
                       ELSE [rng EXCEPT !.max = SlopeMin(rng.max, Slope(l[2], l[1]))]
        ELSE LET a == IF l[1] > 0
                      THEN [rng EXCEPT !.max = SlopeMin(rng.max, Slope(l[2], l[1]))]
                      ELSE rng
             IN  IF r[1] > 0
                 THEN [a EXCEPT !.min = SlopeMax(a.min, Slope(r[2], r[1]))]
                 ELSE a

\* Variant: a target on the quadrant's diagonal is taken to be outside it.
ClipToTarget_NoDiagonal(rng, t, target) ==
    LET p == TransformMul(Inverse(t), target)
        x == p[1]
        y == p[2]
    IN  IF x = 0 \/ x <= Abs(y) THEN Skipped
        ELSE [rng EXCEPT !.min = SlopeMax(rng.min, Slope(2 * y - 1, 2 * x)),
                         !.max = SlopeMin(rng.max, Slope(2 * y + 1, 2 * x))]

\* "Skip this quadrant if the target outside it; else, filter."
ClipToTarget(rng, t, target) ==
    LET p == TransformMul(Inverse(t), target)
        x == p[1]
        y == p[2]
    IN  IF x = 0 \/ x < Abs(y) THEN Skipped
        ELSE [rng EXCEPT !.min = SlopeMax(rng.min, Slope(2 * y - 1, 2 * x)),
                         !.max = SlopeMin(rng.max, Slope(2 * y + 1, 2 * x))]

\* Variant: the test "if the range is still non-empty" is left out.
SeedQuadrant_KeepEmpty(i, dir, target) ==
    LET t == TRANSFORMS[i]
        a == IF dir = <<0, 0>> THEN FullRange ELSE ClipToCone(FullRange, t, dir)
        b == IF a.skip \/ target = None THEN a ELSE ClipToTarget(a, t, target[1])
    IN  IF b.skip THEN <<>>
        ELSE << [min |-> b.min, max |-> b.max, transform |-> i,
                 visibility |-> INITIAL_VISIBILITY] >>

\* The ranges one quadrant contributes: none or one.
SeedQuadrant(i, dir, target) ==
    LET t == TRANSFORMS[i]
        a == IF dir = <<0, 0>> THEN FullRange ELSE ClipToCone(FullRange, t, dir)
        b == IF a.skip \/ target = None THEN a ELSE ClipToTarget(a, t, target[1])
    IN  IF b.skip \/ SlopeLe(b.max, b.min) THEN <<>>
        ELSE << [min |-> b.min, max |-> b.max, transform |-> i,
                 visibility |-> INITIAL_VISIBILITY] >>

\* Variant: the loop over TRANSFORMS leaves out the last quadrant.
seed_ranges_ThreeQuadrants(v, dir, target) ==
    [v EXCEPT !.prev.items = v.prev.items
                  \o SeedQuadrant(1, dir, target) \o SeedQuadrant(2, dir, target)
                  \o SeedQuadrant(3, dir, target)]

seed_ranges(v, dir, target) ==
    [v EXCEPT !.prev.items = v.prev.items
                  \o SeedQuadrant(1, dir, target) \o SeedQuadrant(2, dir, target)
                  \o SeedQuadrant(3, dir, target) \o SeedQuadrant(4, dir, target)]

(***************************************************************************)
(* Vision::execute                                                         *)
(***************************************************************************)
\* The push closure: extend the tail range in place or append.
push(items, s) ==
    LET n == Len(items)
    IN  IF /\ n > 0
           /\ SlopeEq(items[n].max, s.min)
           /\ items[n].visibility = s.visibility
           /\ items[n].transform = s.transform
        THEN [items EXCEPT ![n].max = s.max]
        ELSE Append(items, s)

\* (r * opacity as f64) as i32 with r = 1.0 + (0.5 * |y|) / x.  For x <= 4
\* and opacity <= 300 the f64 result truncates to the exact quotient below
\* (checked exhaustively against IEEE doubles); deeper rows are out of the
\* model's bounds.
Attenuation(x, y, opacity) == (opacity * (2 * x + Abs(y))) \div (2 * x)

\* Variant: a fully blocking cell keeps the light instead of ending it.
NextVisibility_BlockPasses(nearby, opacity, visibility, x, y) ==
    IF ~nearby THEN -1
    ELSE IF opacity = 0 THEN visibility
    ELSE IF opacity >= visibility THEN visibility
    ELSE Max(visibility - Attenuation(x, y, opacity), 0)

\* The cell classification closure.
NextVisibility(nearby, opacity, visibility, x, y) ==
    IF ~nearby THEN -1
    ELSE IF opacity = 0 THEN visibility
    ELSE IF opacity >= visibility THEN 0
    ELSE Max(visibility - Attenuation(x, y, opacity), 0)

\* Variant: no range test at all.
Nearby_Always(x, y, r2) == TRUE

\* Variant: the range test is strict.
Nearby_Strict(x, y, r2) == x * x + y * y < r2

Nearby(x, y, r2) == x * x + y * y <= r2

\* Variant: the point is appended whether or not the cell was lit before.
Mark_AlwaysPush(v, point, eye, next_visibility) ==
    LET center == <<v.radius, v.radius>>
        cell == PointAdd(point, center)
    IN  IF ~MatrixContains(v.visibility, cell) THEN [v EXCEPT !.panic = TRUE]
        ELSE LET entry == MatrixGet(v.visibility, cell)
             IN  [v EXCEPT !.points_seen = Append(@, PointAdd(point, eye)),
                           !.visibility =
                               MatrixSet(@, cell, Max(entry, next_visibility))]

\* Variant: a cell lit twice adds the two values up instead of keeping the
\* larger.
Mark_Accumulate(v, point, eye, next_visibility) ==
    LET center == <<v.radius, v.radius>>
        cell == PointAdd(point, center)
    IN  IF ~MatrixContains(v.visibility, cell) THEN [v EXCEPT !.panic = TRUE]
        ELSE LET entry == MatrixGet(v.visibility, cell)
             IN  [v EXCEPT !.points_seen =
                               IF entry < 0 THEN Append(@, PointAdd(point, eye)) ELSE @,
                           !.visibility =
                               MatrixSet(@, cell,
                                         IF entry < 0 THEN next_visibility
                                         ELSE entry + next_visibility)]

\* Light the cell; entry_mut(..).unwrap() panics off the matrix.
Mark(v, point, eye, next_visibility) ==
    LET center == <<v.radius, v.radius>>
        cell == PointAdd(point, center)
    IN  IF ~MatrixContains(v.visibility, cell) THEN [v EXCEPT !.panic = TRUE]
        ELSE LET entry == MatrixGet(v.visibility, cell)
             IN  [v EXCEPT !.points_seen =
                               IF entry < 0 THEN Append(@, PointAdd(point, eye)) ELSE @,
                           !.visibility =
                               MatrixSet(@, cell, Max(entry, next_visibility))]

\* Variant: a run of cells that ended the light is passed on as a range too.
Carries_Zero(prev_visibility) == prev_visibility >= 0

\* if prev_visibility > 0: only a run of cells with light left is passed on.
Carries(prev_visibility) == prev_visibility > 0

\* Variant: the lower bound of the range being built is never moved up.
NextMin_Kept(changed, slope, min) == min

\* min = slope, inside the branch taken when the visibility changed.
NextMin(changed, slope, min) == IF changed THEN slope ELSE min

\* The loop over width in start..=limit for one range, then the trailing push.
\* The oracle is asked about a cell exactly when the cell is nearby.
RECURSIVE ScanWidths(_, _, _, _, _, _)
ScanWidths(v, c, min, prev_visibility, width, finish) ==
    IF v.panic THEN v
    ELSE IF width > finish
    THEN IF Carries(prev_visibility)
         THEN Held([v EXCEPT !.next.items =
                       push(@, [min |-> min, max |-> c.range.max,
                                transform |-> c.range.transform,
                                visibility |-> prev_visibility])])
         ELSE v
    ELSE
    LET x == c.depth
        y == width
        nearby == Nearby(x, y, c.r2)
        point == TransformMul(TRANSFORMS[c.range.transform], <<x, y>>)
        opacity == opacity_lookup(c.map, PointAdd(point, c.eye))
        next_visibility ==
            NextVisibility(nearby, opacity, c.range.visibility, x, y)
        v0 == IF nearby
              THEN [v EXCEPT !.lookups = Append(@, PointAdd(point, c.eye))]
              ELSE v
        v1 == IF next_visibility >= 0
              THEN Mark(v0, point, c.eye, next_visibility)
              ELSE v0
        changed == prev_visibility # next_visibility /\ prev_visibility >= 0
        slope == Slope(2 * width - 1, 2 * c.depth)
        v2 == IF changed /\ Carries(prev_visibility)
              THEN Held([v1 EXCEPT !.next.items =
                            push(@, [min |-> min, max |-> slope,
                                     transform |-> c.range.transform,
                                     visibility |-> prev_visibility])])
              ELSE v1
    IN  ScanWidths(v2, c, NextMin(changed, slope, min),
                   next_visibility, width + 1, finish)

ScanRange(v, range, eye, map) ==
    LET depth == v.prev.depth
        start == div_floor(2 * range.min.num * depth + range.min.den,
                           2 * range.min.den)
        finish == div_ceil(2 * range.max.num * depth - range.max.den,
                           2 * range.max.den)
        c == [depth |-> depth, range |-> range, eye |-> eye, map |-> map,
              r2 |-> v.radius * v.radius + v.radius]
    IN  ScanWidths(v, c, range.min, -1, start, finish)

RECURSIVE ScanRanges(_, _, _, _)
ScanRanges(v, i, eye, map) ==
    IF i > Len(v.prev.items) THEN v
    ELSE ScanRanges(ScanRange(v, v.prev.items[i], eye, map), i + 1, eye, map)

\* swap(prev, next); next.items.clear(); next.depth += 2
Advance(v) ==
    [v EXCEPT !.prev = v.next,
              !.next = [depth |-> v.prev.depth + 2, items |-> <<>>]]

RECURSIVE execute(_, _, _, _)
execute(v, eye, limit, map) ==
    IF v.panic \/ ~(v.prev.depth <= limit /\ v.prev.items # <<>>) THEN v
    ELSE execute(Advance(ScanRanges(v, 1, eye, map)), eye, limit, map)

(***************************************************************************)
(* Vision::compute and Vision::can_see                                     *)
(***************************************************************************)
\* The Vision as a call that sweeps finds it: the records of the call are
\* empty.
Called(v) == [v EXCEPT !.lookups = <<>>, !.held = {}]

compute(v, a) ==
    execute(Held(seed_ranges(clear(Called(v), a.eye, a.initial_visibility),
                             a.dir, None)),
            a.eye, v.radius, a.opacity_lookup)

can_see(v, a, target) ==
    LET d == PointSub(target, a.eye)
        r2 == v.radius * v.radius + v.radius
        limit == Max(Abs(d[1]), Abs(d[2]))
        w == execute(Held(seed_ranges(clear(Called(v), a.eye,
                                            a.initial_visibility),
                                      a.dir, Some(d))),
                     a.eye, limit, a.opacity_lookup)
    IN  IF a.eye = target THEN [vision |-> v, ret |-> TRUE, swept |-> FALSE]
        ELSE IF d[1] * d[1] + d[2] * d[2] > r2
        THEN [vision |-> v, ret |-> FALSE, swept |-> FALSE]
        ELSE [vision |-> w, ret |-> get_visibility_at(w, target) >= 0,
              swept |-> TRUE]

(***************************************************************************)
(* Reading a Vision back.                                                  *)
(***************************************************************************)
\* The world points whose matrix coordinates lie on the scratch matrix of
\* Vision v, and one ring of points around them.
Window(v) ==
    {PointSub(<<x, y>>, v.offset) :
        x \in (-1)..(2 * v.radius + 1), y \in (-1)..(2 * v.radius + 1)}

\* The points a Vision reports as visible.
VisibleSet(v) == {p \in Window(v) : get_visibility_at(v, p) >= 0}

(***************************************************************************)
(* State.  The Vision's fields, whether the process has panicked, the      *)
(* oracle's record of the cells looked up during the last sweep, the slope *)
(* ranges the two lists held during it, and what the caller last did:      *)
(* args are the VisionArgs of the last call that                           *)
(* reached clear (the sweep whose results the Vision holds), op / target / *)
(* result describe the last call, swept tells whether it ran the sweep,     *)
(* reset which branch of clear the last sweep took: "fresh" (nothing seen  *)
(* before), "sparse" or "dense", seen_before how many points points_seen   *)
(* held when that clear began.  lit is the test harness's record of the    *)
(* points a compute made visible (run_fov's result), kept for comparison   *)
(* with the point lookups that follow.                                     *)
(***************************************************************************)
VARIABLES radius, offset, points_seen, visibility, prev, next, panicked,
          lookups, held, args, op, target, result, swept, reset, seen_before,
          lit

vars == <<radius, offset, points_seen, visibility, prev, next, panicked,
          lookups, held, args, op, target, result, swept, reset, seen_before,
          lit>>

Self ==
    [radius |-> radius, offset |-> offset, points_seen |-> points_seen,
     visibility |-> visibility, prev |-> prev, next |-> next,
     panic |-> panicked, lookups |-> lookups, held |-> held]

Store(v) ==
    /\ radius' = v.radius
    /\ offset' = v.offset
    /\ points_seen' = v.points_seen
    /\ visibility' = v.visibility
    /\ prev' = v.prev
    /\ next' = v.next
    /\ panicked' = v.panic
    /\ lookups' = v.lookups
    /\ held' = v.held

VisionArgs(eye, dir, map, initial_visibility) ==
    [eye |-> eye, dir |-> dir, opacity_lookup |-> map,
     initial_visibility |-> initial_visibility]

(***************************************************************************)
(* Inputs.                                                                 *)
(***************************************************************************)
Opacities == {0, VISIBILITY_LOSS, INITIAL_VISIBILITY}

OpenMap == [c \in Grid |-> 0]

Blocks(map) == {c \in Grid : map[c] # 0}

\* Every map of the grid with at most MaxBlocks cells that are not transparent.
Maps == {m \in [Grid -> Opacities] : Cardinality(Blocks(m)) <= MaxBlocks}

\* The inputs of the calls of Spec.
CallEyes == {<<0, 0>>, <<2, 1>>}

CallDirs == {<<0, 0>>, <<-1, 1>>}

CallMaps ==
    {OpenMap,
     [c \in Grid |-> IF c = <<1, 0>> THEN INITIAL_VISIBILITY
                     ELSE IF c = <<1, 1>> THEN VISIBILITY_LOSS ELSE 0]}

CallBudgets == {0, 150}

CallTargets == {<<0, 0>>, <<1, 1>>, <<3, 1>>}

CallArgs ==
    {VisionArgs(e, d, m, b) :
        e \in CallEyes, d \in CallDirs, m \in CallMaps, b \in CallBudgets}

\* The inputs of SpecQuery: a viewer at either end of the
\* grid, looking everywhere or along the grid, on every map of Maps.
View(eye, dir, initial_visibility) ==
    [eye |-> eye, dir |-> dir, initial_visibility |-> initial_visibility]

QueryViews ==
    {View(<<0, 0>>, <<0, 0>>, INITIAL_VISIBILITY),
     View(<<0, 0>>, <<1, 0>>, 150),
     View(<<0, 0>>, <<1, 2>>, 30),
     View(<<0, 0>>, <<2, -1>>, INITIAL_VISIBILITY),
     View(<<3, 1>>, <<0, 0>>, 0),
     View(<<3, 1>>, <<-1, 0>>, INITIAL_VISIBILITY),
     View(<<3, 1>>, <<-1, -1>>, INITIAL_VISIBILITY)}

QueryTargets == Grid \cup {<<-1, 2>>, <<4, -1>>}

QueryArgs ==
    {VisionArgs(v.eye, v.dir, m, v.initial_visibility) :
        v \in QueryViews, m \in Maps}

\* The inputs of SpecAttenuate.
AttenuateViews ==
    {View(<<0, 0>>, <<0, 0>>, INITIAL_VISIBILITY),
     View(<<0, 0>>, <<1, 0>>, INITIAL_VISIBILITY),
     View(<<3, 1>>, <<0, 0>>, INITIAL_VISIBILITY)}

AttenuateArgs ==
    {VisionArgs(v.eye, v.dir, m, v.initial_visibility) :
        v \in AttenuateViews, m \in Maps}

\* The inputs of SpecRing: a viewer walled in at Chebyshev distance k, with
\* at most one cell that is not transparent inside the wall, and open ground
\* or a field of grass beyond it.
Square(eye, k) ==
    {PointAdd(eye, <<x, y>>) : x \in (-k)..k, y \in (-k)..k}

Ring(eye, k) == {p \in Square(eye, k) : len_l1(PointSub(p, eye)) = k}

RingMap(eye, k, d, o, beyond) ==
    [p \in Square(eye, MaxRadius) |->
        IF len_l1(PointSub(p, eye)) = k THEN INITIAL_VISIBILITY
        ELSE IF len_l1(PointSub(p, eye)) > k THEN beyond
        ELSE IF PointSub(p, eye) = d THEN o
        ELSE 0]

RingArgs ==
    {VisionArgs(eye, <<0, 0>>, RingMap(eye, k, d, o, beyond),
                INITIAL_VISIBILITY) :
        eye \in CallEyes, k \in 1..MaxRadius,
        d \in Square(<<0, 0>>, MaxRadius - 1), o \in Opacities,
        beyond \in {0, VISIBILITY_LOSS}}

(***************************************************************************)
(* Operations.                                                             *)
(***************************************************************************)
InitVision(r) ==
    /\ radius = r
    /\ offset = VisionNew(r).offset
    /\ points_seen = VisionNew(r).points_seen
    /\ visibility = VisionNew(r).visibility
    /\ prev = VisionNew(r).prev
    /\ next = VisionNew(r).next
    /\ panicked = FALSE
    /\ lookups = <<>>
    /\ held = {}
    /\ op = "new"
    /\ target = None
    /\ result = FALSE
    /\ swept = FALSE
    /\ reset = "none"
    /\ seen_before = 0
    /\ lit = {}

\* The branch of clear a sweep started from Vision v takes.
ResetKind(v) ==
    IF UseDenseReset(v) THEN "dense"
    ELSE IF v.points_seen = <<>> THEN "fresh" ELSE "sparse"

Init ==
    /\ \E r \in 1..MaxRadius : InitVision(r)
    /\ args = VisionArgs(<<0, 0>>, <<0, 0>>, OpenMap, INITIAL_VISIBILITY)

Compute(a) ==
    /\ ~panicked
    /\ \E w \in {compute(Self, a)} : Store(w)
    /\ args' = a
    /\ op' = "compute"
    /\ target' = None
    /\ result' = FALSE
    /\ swept' = TRUE
    /\ reset' = ResetKind(Self)
    /\ seen_before' = Len(points_seen)

CanSee(a, t) ==
    /\ ~panicked
    /\ \E r \in {can_see(Self, a, t)} :
           /\ Store(r.vision)
           /\ args' = IF r.swept THEN a ELSE args
           /\ result' = r.ret
           /\ swept' = r.swept
           /\ reset' = IF r.swept THEN ResetKind(Self) ELSE reset
           /\ seen_before' = IF r.swept THEN Len(points_seen) ELSE seen_before
    /\ op' = "can_see"
    /\ target' = Some(t)

ComputeCall == (\E a \in CallArgs : Compute(a)) /\ UNCHANGED lit

CanSeeCall ==
    (\E a \in CallArgs : \E t \in CallTargets : CanSee(a, t)) /\ UNCHANGED lit

Next == ComputeCall \/ CanSeeCall

Spec == Init /\ [][Next]_vars

(***************************************************************************)
(* SpecQuery: the test harness run_fov.  One Vision and one VisionArgs,    *)
(* drawn at the start; compute runs on them and its visible points are     *)
(* recorded, then one point lookup runs on the same Vision with the same   *)
(* arguments.  SpecAttenuate is the compute half on its own inputs.        *)
(***************************************************************************)
InitQuery ==
    /\ \E r \in 1..MaxRadius : InitVision(r)
    /\ args \in QueryArgs

QueryCompute ==
    /\ op = "new"
    /\ Compute(args)
    /\ lit' = VisibleSet(Self)'

QueryCanSee ==
    /\ op = "compute"
    /\ \E t \in QueryTargets : CanSee(args, t)
    /\ UNCHANGED lit

NextQuery == QueryCompute \/ QueryCanSee

SpecQuery == InitQuery /\ [][NextQuery]_vars

InitAttenuate ==
    /\ \E r \in 1..MaxRadius : InitVision(r)
    /\ args \in AttenuateArgs

SpecAttenuate == InitAttenuate /\ [][QueryCompute]_vars

\* SpecRing: the compute half of the harness for a viewer inside a wall.
InitRing ==
    /\ \E r \in 1..MaxRadius : InitVision(r)
    /\ args \in RingArgs

SpecRing == InitRing /\ [][QueryCompute]_vars

TypeOK ==
    /\ radius \in 1..MaxRadius
    /\ op \in {"new", "compute", "can_see"}
    /\ Len(visibility.data) = (2 * radius + 1) * (2 * radius + 1)

(***************************************************************************)
(* Vocabulary of the properties.                                           *)
(***************************************************************************)
Range(seq) == {seq[i] : i \in DOMAIN seq}

\* The sweep of args on a freshly constructed Vision of the same radius.
FreshCompute(a) == compute(VisionNew(radius), a)

InDisk(d, r) == len_l1(d) <= r /\ len_l2_squared(d) <= r * r + r

(***************************************************************************)
(* C1  Consistency: can_see(args, p) returns true exactly when, after      *)
(* compute(args) on the same Vision, get_visibility_at(p) >= 0.  In        *)
(* SpecQuery lit holds the points compute(args) left visible on the Vision *)
(* the lookup then runs on.                                                *)
(***************************************************************************)
C1_Consistency == op = "can_see" => result = (target[1] \in lit)

\* A swept query in a facing cone that finds its target hidden behind a block.
C1_Witness ==
    /\ op = "can_see" /\ swept /\ ~result
    /\ args.dir # <<0, 0>>
    /\ target[1] \in
           VisibleSet(FreshCompute([args EXCEPT !.opacity_lookup = OpenMap]))

(***************************************************************************)
(* C2  get_visibility_at(p) >= 0 iff p occurs in get_points_seen(), and no *)
(* point occurs in get_points_seen() twice, in every reachable state.      *)
(***************************************************************************)
C2_SeenIffVisible ==
    /\ \A p \in Window(Self) :
          get_visibility_at(Self, p) >= 0 <=> p \in Range(points_seen)
    /\ Range(points_seen) \subseteq Window(Self)
    /\ \A i, j \in DOMAIN points_seen :
          points_seen[i] = points_seen[j] => i = j

\* A second sweep, from another eye, that took the sparse reset over the
\* cells of the sweep before it and lit more than the eye.
C2_Witness ==
    /\ swept /\ reset = "sparse"
    /\ args.eye # <<0, 0>>
    /\ Len(points_seen) > 2

(***************************************************************************)
(* C3  After compute(args): get_points_seen()[0] = args.eye and            *)
(* get_visibility_at(args.eye) = args.initial_visibility.                  *)
(***************************************************************************)
C3_EyeFirst ==
    op = "compute" =>
        /\ points_seen[1] = args.eye
        /\ get_visibility_at(Self, args.eye) = args.initial_visibility

\* A full sweep with a budget other than the seeded one that lit the
\* neighbours of an eye away from the origin.
C3_Witness ==
    /\ op = "compute"
    /\ args.initial_visibility # INITIAL_VISIBILITY
    /\ args.eye # <<0, 0>>
    /\ Len(points_seen) >= 9

(***************************************************************************)
(* C4  After compute(args) every point seen is within Chebyshev distance   *)
(* radius of the eye and within squared distance radius^2 + radius, so     *)
(* every cell written is on the scratch matrix and the unwrap never fails. *)
(***************************************************************************)
C4_SeenInRange ==
    /\ ~panicked
    /\ op = "compute" =>
          \A i \in DOMAIN points_seen :
              /\ InDisk(PointSub(points_seen[i], args.eye), radius)
              /\ MatrixContains(visibility, PointAdd(points_seen[i], offset))

\* A full sweep that lit a cell beyond distance radius, in the rim the
\* radius^2 + radius rule adds.
C4_Witness ==
    /\ op = "compute"
    /\ \E i \in DOMAIN points_seen :
          len_l2_squared(PointSub(points_seen[i], args.eye)) > radius * radius

(***************************************************************************)
(* C5  In open terrain with dir = (0, 0), the points with visibility >= 0  *)
(* after compute are exactly those within Chebyshev distance radius and    *)
(* squared distance radius^2 + radius of the eye.                          *)
(***************************************************************************)
OpenTerrain(a, r) ==
    \A c \in Grid :
        len_l1(PointSub(c, a.eye)) <= r => a.opacity_lookup[c] = 0

C5_OpenDisk ==
    (op = "compute" /\ args.dir = <<0, 0>> /\ OpenTerrain(args, radius)) =>
        VisibleSet(Self)
            = {p \in Window(Self) : InDisk(PointSub(p, args.eye), radius)}

\* An open-terrain sweep of the largest radius (with a block beyond reach
\* or none) under which the corners of the square stay dark.
C5_Witness ==
    /\ op = "compute" /\ args.dir = <<0, 0>> /\ OpenTerrain(args, radius)
    /\ radius >= 2
    /\ get_visibility_at(Self, PointAdd(args.eye, <<radius, radius>>)) < 0
    /\ get_visibility_at(Self, PointAdd(args.eye, <<radius, 1>>)) >= 0

(***************************************************************************)
(* C6  Determinism and independence from prior use: compute(args) on a     *)
(* Vision that has run other calls before leaves the same points_seen (in  *)
(* the same order) and the same visibility at every point as compute(args) *)
(* on a freshly constructed Vision of the same radius.                     *)
(***************************************************************************)
SameReadBack(v, w) ==
    /\ v.points_seen = w.points_seen
    /\ \A p \in Window(v) \cup Window(w) :
          get_visibility_at(v, p) = get_visibility_at(w, p)

C6_Determinism == op = "compute" => SameReadBack(Self, FreshCompute(args))

\* A full sweep that began by resetting, cell by cell, what an earlier
\* sweep on the same Vision had lit.
C6_Witness ==
    /\ op = "compute" /\ reset = "sparse"
    /\ Len(points_seen) >= 9

(***************************************************************************)
(* C7  Monotone attenuation: raising the opacity of one cell c never       *)
(* raises the visibility compute leaves at any other cell (unseen, -1,     *)
(* counting as lowest).                                                    *)
(***************************************************************************)
Raised(a, c, o) == [a EXCEPT !.opacity_lookup[c] = o]

C7_Monotone ==
    op = "compute" =>
        \A c \in Grid : \A o \in Opacities :
            o > args.opacity_lookup[c] =>
                LET w == FreshCompute(Raised(args, c, o))
                IN  \A p \in Window(Self) \ {c} :
                        get_visibility_at(w, p) <= get_visibility_at(Self, p)

\* A sweep through a semi-transparent cell: turning that cell opaque darkens
\* a cell behind it that was lit with part of the light.
C7_Witness ==
    /\ op = "compute"
    /\ \E c \in Grid :
          /\ args.opacity_lookup[c] = VISIBILITY_LOSS
          /\ LET w == FreshCompute(Raised(args, c, INITIAL_VISIBILITY))
             IN  \E p \in Window(Self) \ {c} :
                     /\ get_visibility_at(Self, p) > 0
                     /\ get_visibility_at(Self, p) < INITIAL_VISIBILITY
                     /\ get_visibility_at(w, p) < 0

(***************************************************************************)
(* C8  Directional subset: the points visible after compute with a nonzero *)
(* dir are among those visible after compute with dir = (0, 0) and the     *)
(* same eye, oracle and budget.                                            *)
(***************************************************************************)
Undirected(a) == [a EXCEPT !.dir = <<0, 0>>]

C8_DirectionalSubset ==
    (op = "compute" /\ args.dir # <<0, 0>>) =>
        VisibleSet(Self) \subseteq VisibleSet(FreshCompute(Undirected(args)))

\* A directional sweep on a map with a block that sees cells other than the
\* eye, misses cells the full sweep sees, and has a shadow inside its cone.
C8_Witness ==
    /\ op = "compute" /\ args.dir # <<0, 0>>
    /\ Len(points_seen) > 1
    /\ VisibleSet(Self) # VisibleSet(FreshCompute(Undirected(args)))
    /\ VisibleSet(Self)
           # VisibleSet(FreshCompute([args EXCEPT !.opacity_lookup = OpenMap]))

(***************************************************************************)
(* C9  After a sweep every cell of the visibility matrix holds -1 or a     *)
(* value in [0, INITIAL_VISIBILITY].                                       *)
(***************************************************************************)
Center == <<radius, radius>>

Cells == (0..(2 * radius)) \X (0..(2 * radius))

InBudgetRange(x) == x = -1 \/ (0 <= x /\ x <= INITIAL_VISIBILITY)

\* The claim as stated: every cell, whatever budget the caller passed.
C9_AllCellsInRange ==
    swept => \A m \in Cells : InBudgetRange(MatrixGet(visibility, m))

\* As amended: every cell but the viewer's own holds -1 or a value in
\* [0, INITIAL_VISIBILITY]; the viewer's cell holds the budget of the call.
C9_OtherCellsInRange ==
    swept =>
        /\ \A m \in Cells \ {Center} : InBudgetRange(MatrixGet(visibility, m))
        /\ MatrixGet(visibility, Center) = args.initial_visibility

\* A sweep with a budget above INITIAL_VISIBILITY that lit a cell twice (a
\* quadrant diagonal) and left a cell with part of the light.
C9_Witness ==
    /\ swept /\ args.initial_visibility > INITIAL_VISIBILITY
    /\ get_visibility_at(Self, PointAdd(args.eye, <<1, 1>>)) >= 0
    /\ \E m \in Cells :
          /\ 0 < MatrixGet(visibility, m)
          /\ MatrixGet(visibility, m) < INITIAL_VISIBILITY

(***************************************************************************)
(* C10  Symmetry: on a map of fully transparent and fully opaque cells,    *)
(* with dir = (0, 0), for transparent cells a and b, can_see from a to b   *)
(* returns what can_see from b to a returns.                               *)
(***************************************************************************)
BinaryMap(map) == \A c \in Grid : map[c] = 0 \/ map[c] >= INITIAL_VISIBILITY

Reverse(a, t) == can_see(VisionNew(radius), [a EXCEPT !.eye = t], a.eye).ret

SymmetryCase ==
    /\ op = "can_see" /\ args.dir = <<0, 0>>
    /\ BinaryMap(args.opacity_lookup)
    /\ opacity_lookup(args.opacity_lookup, args.eye) = 0
    /\ opacity_lookup(args.opacity_lookup, target[1]) = 0

\* The claim as stated: for every pair of transparent cells.
C10_Symmetric == SymmetryCase => result = Reverse(args, target[1])

\* As amended: for transparent cells at Chebyshev distance at most 2.
C10_SymmetricNear ==
    (SymmetryCase /\ len_l1(PointSub(target[1], args.eye)) <= 2) =>
        result = Reverse(args, target[1])

\* A swept query between cells two apart that an opaque cell between them
\* blocks, from either end.
C10_Witness ==
    /\ SymmetryCase /\ swept /\ ~result
    /\ len_l1(PointSub(target[1], args.eye)) = 2
    /\ len_l2_squared(PointSub(target[1], args.eye)) <= radius * radius + radius

(***************************************************************************)
(* C11  During a single compute or can_see sweep the oracle is invoked at  *)
(* most once for any given world cell, cells on the quadrant diagonals and *)
(* cells straddled by two slope ranges included.                           *)
(***************************************************************************)
LookupCount(p) == Cardinality({i \in DOMAIN lookups : lookups[i] = p})

OnDiagonal(p) ==
    Abs(p[1] - args.eye[1]) = Abs(p[2] - args.eye[2])

\* The claim as stated: no cell is looked up twice in a sweep.
C11_LookupOnce == swept => \A p \in Range(lookups) : LookupCount(p) = 1

\* As amended: on a map of fully transparent and fully opaque cells, a cell
\* off the quadrant diagonals is looked up at most once in a sweep and a cell
\* on them at most twice.
C11_LookupOncePerQuadrant ==
    (swept /\ BinaryMap(args.opacity_lookup)) =>
        \A p \in Range(lookups) :
            LookupCount(p) <= IF OnDiagonal(p) THEN 2 ELSE 1

\* A full sweep past an opaque cell that casts a shadow, in which both
\* quadrants sharing a diagonal asked about a cell on it.
C11_Witness ==
    /\ op = "compute" /\ BinaryMap(args.opacity_lookup)
    /\ radius >= 2
    /\ \E c \in Grid :
          /\ args.opacity_lookup[c] >= INITIAL_VISIBILITY
          /\ c \in Range(lookups)
    /\ VisibleSet(Self)
           # VisibleSet(FreshCompute([args EXCEPT !.opacity_lookup = OpenMap]))
    /\ \E p \in Range(lookups) : OnDiagonal(p) /\ LookupCount(p) = 2

(***************************************************************************)
(* C12  clear chooses its reset by sparsity: the sparse reset (only the    *)
(* cells listed in the previous points_seen) when points_seen.len * 16 >   *)
(* number of matrix cells, the dense reset (the whole matrix) otherwise.   *)
(* A clear that finds points_seen empty has nothing to reset and is left   *)
(* out of the claim as stated.                                             *)
(***************************************************************************)
ManySeen == seen_before * SPARSE_FACTOR > Len(visibility.data)

\* The claim as stated: sparse when many points were seen, dense otherwise.
C12_SparseWhenMany ==
    swept =>
        /\ reset = "sparse" => ManySeen
        /\ reset = "dense" => ~ManySeen

\* As amended: dense when many points were seen, sparse otherwise.
C12_DenseWhenMany == swept => (reset = "dense" <=> ManySeen)

\* A sweep whose clear reset, cell by cell, the few points of the sweep
\* before it on a matrix more than 16 times as large.
C12_Witness ==
    /\ swept /\ reset = "sparse"
    /\ seen_before >= 2
    /\ seen_before * SPARSE_FACTOR <= Len(visibility.data)

\* A sweep whose clear filled the whole matrix after a sweep that had lit
\* most of it.
C12_WitnessDense ==
    /\ swept /\ reset = "dense"
    /\ 2 * seen_before > Len(visibility.data)

(***************************************************************************)
(* C13  Every SlopeRange ever held in prev.items or next.items (seeded by  *)
(* seed_ranges or emitted by execute, tail merging included) has           *)
(* min < max and visibility > 0; seed_ranges drops a quadrant whose        *)
(* clipped range is empty.                                                 *)
(***************************************************************************)
WellFormed(s) == SlopeLt(s.min, s.max) /\ s.visibility > 0

C13_RangesWellFormed ==
    /\ \A s \in held : WellFormed(s)
    /\ \A i \in DOMAIN prev.items : prev.items[i] \in held
    /\ \A i \in DOMAIN next.items : next.items[i] \in held

\* The clip of quadrant i for the last call: the quadrant is not skipped,
\* and the facing cone and the target's band have no slope in common.
ClippedEmpty(i) ==
    LET t == TRANSFORMS[i]
        a == IF args.dir = <<0, 0>> THEN FullRange
             ELSE ClipToCone(FullRange, t, args.dir)
        b == IF a.skip THEN a
             ELSE ClipToTarget(a, t, PointSub(target[1], args.eye))
    IN  ~b.skip /\ SlopeLe(b.max, b.min)

\* A swept point lookup in which seed_ranges dropped a quadrant because its
\* clipped range was empty, another quadrant was seeded, and the sweep
\* emitted ranges of less than the full light (behind a semi-transparent
\* cell) as well as ranges of the full light.
C13_Witness ==
    /\ op = "can_see" /\ swept
    /\ \E i \in 1..4 : ClippedEmpty(i)
    /\ \E s \in held : s.visibility < INITIAL_VISIBILITY
    /\ \E s \in held : s.visibility = INITIAL_VISIBILITY

(***************************************************************************)
(* C14  A fully blocking cell is lit but passes no light: if every cell at *)
(* Chebyshev distance exactly k (1 <= k <= radius) from the eye has        *)
(* opacity >= INITIAL_VISIBILITY, then after compute with dir = (0, 0) and *)
(* initial_visibility = INITIAL_VISIBILITY no cell at Chebyshev distance   *)
(* > k is seen, and the cells of that ring that are reached have           *)
(* visibility 0.                                                           *)
(***************************************************************************)
RingOpaque(a, k) ==
    \A p \in Ring(a.eye, k) :
        opacity_lookup(a.opacity_lookup, p) >= INITIAL_VISIBILITY

C14_BlockingRing ==
    (/\ op = "compute"
     /\ args.dir = <<0, 0>>
     /\ args.initial_visibility = INITIAL_VISIBILITY) =>
        \A k \in 1..radius :
            RingOpaque(args, k) =>
                /\ \A p \in VisibleSet(Self) :
                       len_l1(PointSub(p, args.eye)) <= k
                /\ \A p \in Ring(args.eye, k) \cap VisibleSet(Self) :
                       get_visibility_at(Self, p) = 0

\* A sweep of a viewer walled in closer than its radius, with grass beyond
\* the wall: part of the wall is lit with 0, part of it lies in the shadow of
\* an opaque cell inside, and a cell inside is lit with part of the light.
C14_Witness ==
    /\ op = "compute"
    /\ \E k \in 2..(radius - 1) :
          /\ RingOpaque(args, k)
          /\ \E p \in Ring(args.eye, k) : get_visibility_at(Self, p) = 0
          /\ \E p \in Ring(args.eye, k) : get_visibility_at(Self, p) < 0
          /\ \E p \in Ring(args.eye, k + 1) :
                opacity_lookup(args.opacity_lookup, p) = VISIBILITY_LOSS
    /\ Len(points_seen) > 9

(***************************************************************************)
(* C15  The caller's budget bounds what the sweep reports: after           *)
(* compute(args) with initial_visibility > 0 and a non-negative oracle, no *)
(* cell other than the eye has get_visibility_at(p) greater than           *)
(* args.initial_visibility.                                                *)
(***************************************************************************)
C15_BudgetBounds ==
    (op = "compute" /\ args.initial_visibility > 0) =>
        \A p \in Window(Self) \ {args.eye} :
            get_visibility_at(Self, p) <= args.initial_visibility

=============================================================================
